---- MODULE Spec2Model ----
(***************************************************************************)
(* The products API: five HTTP-triggered handlers (create, get, update,    *)
(* delete, list) over one DynamoDB table keyed by productId.               *)
(*                                                                         *)
(* The repository holds three revisions of the handlers file:              *)
(*   "handlers"  src/src/handlers.ts   createProduct, getProduct only      *)
(*   "part_001"  src/unnamed/part_001  all five handlers, no validation    *)
(*   "part_000"  src/unnamed/part_000  all five handlers, yup validation   *)
(* The variable `variant` says which revision is deployed; it never        *)
(* changes.  Where two revisions hold the same text (fetchProductById,     *)
(* getProduct, deleteProduct, listProduct of part_000 and part_001) one    *)
(* definition models both.                                                 *)
(***************************************************************************)
EXTENDS Integers, Sequences, FiniteSets, TLC

\* Number of ids v4() may mint in one behaviour.
MaxUuid == 3
\* Number of invocations that may be in flight at once (SpecConc).
NumProcs == 2
\* Number of products created in the interleaved runs (SpecConc).
MaxRaceUuid == 1

VARIABLES
    variant,    \* the deployed revision of the handlers file
    table,      \* ProductsTable: productId -> Item, NoItem where there is none
    nextUuid,   \* the state of v4(): the next id it returns
    pending,    \* per invocation slot: what an Update/Delete awaits between its two store calls
    deleted,    \* history: ids whose Delete has answered 204
    last        \* the most recently completed invocation: its request and its response

vars == <<variant, table, nextUuid, pending, deleted, last>>

Variants == {"handlers", "part_001", "part_000"}
Procs == 1..NumProcs

(***************************************************************************)
(* JSON values.  A field of a parsed body is one of these tokens; ABSENT   *)
(* is a key the object does not have.                                      *)
(*   "s", "s2"  strings            "sNum"  the string "12"                 *)
(*   "sBool"    the string "true"  "n"     the number 5                    *)
(*   "n1"       the number 1       "b"     the boolean true                *)
(*   "o"        a nested object    "NaN"   only ever the result of a cast  *)
(***************************************************************************)
ABSENT == "absent"

TypeOf(v) ==
    CASE v \in {"s", "s2", "sNum", "sBool"} -> "string"
      [] v \in {"n", "n1"}                  -> "number"
      [] v = "NaN"                          -> "NaN"
      [] v = "b"                            -> "boolean"
      [] v = "o"                            -> "object"
      [] OTHER                              -> "undefined"

\* Ids.  NoId: no productId key.  ClientId: an id a client made up, which
\* v4() never returns.  1..MaxUuid: the ids v4() mints.
NoId == -1
ClientId == 0
Uuids == 1..MaxUuid
Ids == {ClientId} \cup Uuids

Obj(pid, n, d, p, a, x) ==
    [productId |-> pid, name |-> n, description |-> d, price |-> p,
     available |-> a, extra |-> x]

\* output.Item of a get that found nothing
NoItem == Obj(NoId, ABSENT, ABSENT, ABSENT, ABSENT, ABSENT)

(***************************************************************************)
(* Request bodies.  event.body is a string; it is modelled by whether it   *)
(* is well-formed JSON and by the object it then denotes.                  *)
(***************************************************************************)
Raw(ok, o) == [wellFormed |-> ok, obj |-> o]
NoBody == Raw(FALSE, NoItem)

\* all four fields, right types
BodyPlain == Obj(NoId, "s", "s", "n", "b", ABSENT)
\* all four fields, right types, an extra field and a client-chosen productId
BodyExtra(pid) == Obj(pid, "s2", "s", "n1", "b", "s")
\* wrong types that yup's casts accept: name 5, price "12", available "true"
BodyCoerced == Obj(NoId, "n", "s", "sNum", "sBool", ABSENT)
\* name missing, description an object, price "abc", available fine
BodyInvalid == Obj(NoId, ABSENT, "o", "s", "b", ABSENT)
\* the empty object {}
BodyEmpty == Obj(NoId, ABSENT, ABSENT, ABSENT, ABSENT, ABSENT)

\* The bodies a client may send when it knows the ids in `known`.
RawBodies(known) ==
    {Raw(TRUE, BodyPlain), Raw(TRUE, BodyCoerced), Raw(TRUE, BodyInvalid),
     Raw(TRUE, BodyEmpty), NoBody}
    \cup {Raw(TRUE, BodyExtra(pid)) : pid \in known}

\* The ids a client can name: one it made up and those minted so far.
KnownIds == 0..(nextUuid - 1)

\* JSON.parse(event.body): the object, or a SyntaxError
JSON_parse(raw) ==
    IF raw.wellFormed
    THEN [thrown |-> "none", obj |-> raw.obj]
    ELSE [thrown |-> "SyntaxError", obj |-> NoItem]

(***************************************************************************)
(* yup.  validate() casts each field by its type's transform, then tests   *)
(* the cast value; with abortEarly: false every failing field is reported, *)
(* in schema order.                                                        *)
(***************************************************************************)
castString(v) ==
    CASE TypeOf(v) = "string"  -> v
      [] TypeOf(v) = "number"  -> "sNum"
      [] TypeOf(v) = "boolean" -> "sBool"
      [] OTHER                 -> v

castNumber(v) ==
    CASE v = "sNum"              -> "n"
      [] TypeOf(v) = "number"    -> v
      [] TypeOf(v) = "undefined" -> v
      [] OTHER                   -> "NaN"

castBoolean(v) ==
    CASE v = "sBool" -> "b"
      [] v = "n1"    -> "b"
      [] OTHER       -> v

schemaFields == <<"name", "description", "price", "available">>

schemaType(f) ==
    CASE f = "name"        -> "string"
      [] f = "description" -> "string"
      [] f = "price"       -> "number"
      [] f = "available"   -> "boolean"

castField(f, v) ==
    CASE schemaType(f) = "string" -> castString(v)
      [] schemaType(f) = "number" -> castNumber(v)
      [] OTHER                    -> castBoolean(v)

\* the error of one field: "" when it passes
fieldError(f, v) ==
    IF v = ABSENT THEN "required"
    ELSE IF TypeOf(castField(f, v)) # schemaType(f) THEN "typeError"
    ELSE ""

RECURSIVE collectErrors(_, _)
collectErrors(o, i) ==
    IF i > Len(schemaFields) THEN <<>>
    ELSE LET f == schemaFields[i]
             e == fieldError(f, o[f])
         IN (IF e = "" THEN <<>> ELSE <<[path |-> f, type |-> e]>>)
            \o collectErrors(o, i + 1)

\* schema.validate(reqBody, { abortEarly: false }): the ValidationError's errors
validate(o) == collectErrors(o, 1)

(***************************************************************************)
(* The DocumentClient.  Each call is one round trip; the table is keyed by *)
(* the Item's productId attribute.                                         *)
(***************************************************************************)
\* A put that merges into the stored Item (what an UpdateItem would do).
put_merge(tbl, item) ==
    LET old == tbl[item.productId]
        keep(f) == IF f # "productId" /\ item[f] = ABSENT THEN old[f] ELSE item[f]
    IN [tbl EXCEPT ![item.productId] = [f \in DOMAIN item |-> keep(f)]]

put(tbl, item) == [tbl EXCEPT ![item.productId] = item]

get(tbl, id) == tbl[id]

\* A delete whose Key names no stored Item.
delete_none(tbl, id) == tbl

delete(tbl, id) == [tbl EXCEPT ![id] = NoItem]

\* A scan that returns one Item only (a first page).
scan_firstPage(tbl) ==
    LET keys == {j \in Ids : tbl[j] # NoItem}
    IN {tbl[i] : i \in {j \in keys : \A k \in keys : j <= k}}

scan(tbl) == {tbl[i] : i \in {j \in Ids : tbl[j] # NoItem}}

(***************************************************************************)
(* Errors and responses.  An error is what a handler's try block threw;    *)
(* a response is the APIGatewayProxyResult, its body before stringify.     *)
(* kind says which of the body's components is meant: "product" (item),    *)
(* "list" (items), "error" (error), "errors" (errors), "empty" (the body   *)
(* ""), "unhandled" (the handler's promise rejected: no result at all).    *)
(***************************************************************************)
NotFoundMessage == "Product not found"

Error(type, status, msg, errs) ==
    [type |-> type, statusCody |-> status, message |-> msg, errors |-> errs]

NoError == Error("none", 0, "", <<>>)
SyntaxError == Error("SyntaxError", 0, "Unexpected token", <<>>)
ValidationError(errs) == Error("ValidationError", 0, "", errs)
\* new HttpError(404, { error: "Product not found" })
HttpError(status, msg) == Error("HttpError", status, msg, <<>>)

Response(status, hdrs, kind, item, items, msg, errs) ==
    [statusCode |-> status, headers |-> hdrs, kind |-> kind, item |-> item,
     items |-> items, error |-> msg, errors |-> errs]

NoResponse == Response(0, FALSE, "none", NoItem, {}, "", <<>>)
Unhandled(error) == Response(0, FALSE, "unhandled", NoItem, {}, error.type, <<>>)
ProductResponse(hdrs, item) == Response(200, hdrs, "product", item, {}, "", <<>>)
ErrorResponse(status, hdrs, msg) == Response(status, hdrs, "error", NoItem, {}, msg, <<>>)

\* handleError of part_000
handleError(error) ==
    IF error.type = "ValidationError"
    THEN Response(400, TRUE, "errors", NoItem, {}, "", error.errors)
    ELSE IF error.type = "SyntaxError"
    THEN ErrorResponse(400, TRUE, "Invalid request body format: " \o error.message)
    ELSE IF error.type = "HttpError"
    THEN ErrorResponse(error.statusCody, TRUE, error.message)
    ELSE Unhandled(error)

\* handleError of part_001: only HttpError is translated
handleError_1(error) ==
    IF error.type = "HttpError"
    THEN ErrorResponse(error.statusCody, TRUE, error.message)
    ELSE Unhandled(error)

\* fetchProductById: the Item, or HttpError(404)
fetchProductById(tbl, id) ==
    LET item == get(tbl, id)
    IN IF item = NoItem
       THEN [error |-> HttpError(404, NotFoundMessage), item |-> NoItem]
       ELSE [error |-> NoError, item |-> item]

\* v4(): an id never returned before
v4(n) == n

\* { productId: <id>, ...reqBody }: a productId of the body wins.
withProductId_bodyWins(reqBody, id) ==
    IF reqBody.productId # NoId THEN reqBody ELSE [reqBody EXCEPT !.productId = id]

\* { ...reqBody, productId: <id> }: the spread first, then the key
withProductId(reqBody, id) == [reqBody EXCEPT !.productId = id]

(***************************************************************************)
(* The handlers.  Respond records the invocation that has just completed.  *)
(***************************************************************************)
Invocation(op, id, raw, resp) == [op |-> op, id |-> id, raw |-> raw, resp |-> resp]

NoInvocation == Invocation("none", NoId, NoBody, NoResponse)

Idle == [op |-> "idle", id |-> NoId, raw |-> NoBody, item |-> NoItem]

Respond(op, id, raw, resp) == last' = Invocation(op, id, raw, resp)

\* createProduct of part_000 up to the put: parse, validate, mint the id
createChecked(raw, uuid) ==
    LET parsed == JSON_parse(raw)
        errs   == validate(parsed.obj)
    IN IF parsed.thrown # "none" THEN [error |-> SyntaxError, item |-> NoItem]
       ELSE IF errs # <<>> THEN [error |-> ValidationError(errs), item |-> NoItem]
       ELSE [error |-> NoError, item |-> withProductId(parsed.obj, v4(uuid))]

\* createProduct of part_000
createProduct(raw) ==
    /\ variant = "part_000"
    /\ LET c == createChecked(raw, nextUuid)
       IN IF c.error # NoError
          THEN /\ Respond("create", NoId, raw, handleError(c.error))
               /\ UNCHANGED <<table, nextUuid>>
          ELSE /\ nextUuid <= MaxUuid
               /\ table' = put(table, c.item)
               /\ nextUuid' = nextUuid + 1
               /\ Respond("create", NoId, raw, ProductResponse(TRUE, c.item))
    /\ UNCHANGED <<variant, pending, deleted>>

\* createProduct of part_001: no try, no validation
createProduct_1(raw) ==
    /\ variant = "part_001"
    /\ LET parsed  == JSON_parse(raw)
           product == withProductId(parsed.obj, v4(nextUuid))
       IN IF parsed.thrown # "none"
          THEN /\ Respond("create", NoId, raw, Unhandled(SyntaxError))
               /\ UNCHANGED <<table, nextUuid>>
          ELSE /\ nextUuid <= MaxUuid
               /\ table' = put(table, product)
               /\ nextUuid' = nextUuid + 1
               /\ Respond("create", NoId, raw, ProductResponse(TRUE, product))
    /\ UNCHANGED <<variant, pending, deleted>>

\* createProduct of handlers.ts: v4() once for the response, once for the Item
createProduct_h(raw) ==
    /\ variant = "handlers"
    /\ LET parsed  == JSON_parse(raw)
           product == withProductId(parsed.obj, v4(nextUuid))
           Item    == withProductId(parsed.obj, v4(nextUuid + 1))
       IN IF parsed.thrown # "none"
          THEN /\ Respond("create", NoId, raw, Unhandled(SyntaxError))
               /\ UNCHANGED <<table, nextUuid>>
          ELSE /\ nextUuid + 1 <= MaxUuid
               /\ table' = put(table, Item)
               /\ nextUuid' = nextUuid + 2
               /\ Respond("create", NoId, raw, ProductResponse(FALSE, product))
    /\ UNCHANGED <<variant, pending, deleted>>

\* what getProduct answers for id on table tbl (part_000 and part_001)
getResponse(tbl, id) ==
    LET f == fetchProductById(tbl, id)
    IN IF f.error # NoError THEN handleError(f.error)
       ELSE ProductResponse(TRUE, f.item)

\* getProduct of part_000 and part_001
getProduct(id) ==
    /\ variant \in {"part_000", "part_001"}
    /\ Respond("get", id, NoBody, getResponse(table, id))
    /\ UNCHANGED <<variant, table, nextUuid, pending, deleted>>

\* what getProduct of handlers.ts answers for id on table tbl
getResponse_h(tbl, id) ==
    LET Item == get(tbl, id)
    IN IF Item = NoItem
       THEN ErrorResponse(404, FALSE, NotFoundMessage)
       ELSE ProductResponse(FALSE, Item)

\* getProduct of handlers.ts
getProduct_h(id) ==
    /\ variant = "handlers"
    /\ Respond("get", id, NoBody, getResponse_h(table, id))
    /\ UNCHANGED <<variant, table, nextUuid, pending, deleted>>

\* An updateProduct that parses and validates before it fetches.
updateChecked_parseFirst(tbl, id, raw) ==
    LET f      == fetchProductById(tbl, id)
        parsed == JSON_parse(raw)
        errs   == validate(parsed.obj)
    IN IF parsed.thrown # "none" THEN [error |-> SyntaxError, item |-> NoItem]
       ELSE IF errs # <<>> THEN [error |-> ValidationError(errs), item |-> NoItem]
       ELSE IF f.error # NoError THEN [error |-> f.error, item |-> NoItem]
       ELSE [error |-> NoError, item |-> withProductId(parsed.obj, id)]

\* updateProduct of part_000 up to the put: fetch, parse, validate
updateChecked(tbl, id, raw) ==
    LET f      == fetchProductById(tbl, id)
        parsed == JSON_parse(raw)
        errs   == validate(parsed.obj)
    IN IF f.error # NoError THEN [error |-> f.error, item |-> NoItem]
       ELSE IF parsed.thrown # "none" THEN [error |-> SyntaxError, item |-> NoItem]
       ELSE IF errs # <<>> THEN [error |-> ValidationError(errs), item |-> NoItem]
       ELSE [error |-> NoError, item |-> withProductId(parsed.obj, id)]

\* updateProduct of part_001 up to the put: fetch, parse
updateChecked_1(tbl, id, raw) ==
    LET f      == fetchProductById(tbl, id)
        parsed == JSON_parse(raw)
    IN IF f.error # NoError THEN [error |-> f.error, item |-> NoItem]
       ELSE IF parsed.thrown # "none" THEN [error |-> SyntaxError, item |-> NoItem]
       ELSE [error |-> NoError, item |-> withProductId(parsed.obj, id)]

\* updateProduct of part_000, run without interleaving
updateProduct(id, raw) ==
    /\ variant = "part_000"
    /\ LET c == updateChecked(table, id, raw)
       IN IF c.error # NoError
          THEN /\ Respond("update", id, raw, handleError(c.error))
               /\ UNCHANGED table
          ELSE /\ table' = put(table, c.item)
               /\ Respond("update", id, raw, ProductResponse(TRUE, c.item))
    /\ UNCHANGED <<variant, nextUuid, pending, deleted>>

\* updateProduct of part_001, run without interleaving
updateProduct_1(id, raw) ==
    /\ variant = "part_001"
    /\ LET c == updateChecked_1(table, id, raw)
       IN IF c.error # NoError
          THEN /\ Respond("update", id, raw, handleError_1(c.error))
               /\ UNCHANGED table
          ELSE /\ table' = put(table, c.item)
               /\ Respond("update", id, raw, ProductResponse(TRUE, c.item))
    /\ UNCHANGED <<variant, nextUuid, pending, deleted>>

\* the 204 of deleteProduct
DeletedResponse == Response(204, FALSE, "empty", NoItem, {}, "", <<>>)

\* deleteProduct of part_000 and part_001, run without interleaving
deleteProduct(id) ==
    /\ variant \in {"part_000", "part_001"}
    /\ LET f == fetchProductById(table, id)
       IN IF f.error # NoError
          THEN /\ Respond("delete", id, NoBody, handleError(f.error))
               /\ UNCHANGED <<table, deleted>>
          ELSE /\ table' = delete(table, id)
               /\ deleted' = deleted \cup {id}
               /\ Respond("delete", id, NoBody, DeletedResponse)
    /\ UNCHANGED <<variant, nextUuid, pending>>

\* listProduct of part_000 and part_001
listProduct ==
    /\ variant \in {"part_000", "part_001"}
    /\ Respond("list", NoId, NoBody,
               Response(200, TRUE, "list", NoItem, scan(table), "", <<>>))
    /\ UNCHANGED <<variant, table, nextUuid, pending, deleted>>

Init ==
    /\ variant \in Variants
    /\ table = [i \in Ids |-> NoItem]
    /\ nextUuid = 1
    /\ pending = [p \in Procs |-> Idle]
    /\ deleted = {}
    /\ last = NoInvocation

Next ==
    \/ \E raw \in RawBodies(KnownIds) : createProduct(raw)
    \/ \E raw \in RawBodies(KnownIds) : createProduct_1(raw)
    \/ \E raw \in RawBodies(KnownIds) : createProduct_h(raw)
    \/ \E id \in KnownIds : getProduct(id)
    \/ \E id \in KnownIds : getProduct_h(id)
    \/ \E id \in KnownIds, raw \in RawBodies(KnownIds) : updateProduct(id, raw)
    \/ \E id \in KnownIds, raw \in RawBodies(KnownIds) : updateProduct_1(id, raw)
    \/ \E id \in KnownIds : deleteProduct(id)
    \/ listProduct

Spec == Init /\ [][Next]_vars

(***************************************************************************)
(* Interleaved invocations of part_000.  Update and Delete make two store  *)
(* round trips with an await between them; other invocations' round trips  *)
(* may take place there.  Parsing and validation touch no shared state, so *)
(* they are taken with the first round trip.                               *)
(***************************************************************************)
\* updateProduct, lines 119-130: from the request to the await of the put
updateProduct_fetch(p, id, raw) ==
    /\ variant = "part_000"
    /\ pending[p] = Idle
    /\ LET c == updateChecked(table, id, raw)
       IN IF c.error # NoError
          THEN /\ Respond("update", id, raw, handleError(c.error))
               /\ UNCHANGED pending
          ELSE /\ pending' = [pending EXCEPT ![p] =
                                 [op |-> "update", id |-> id, raw |-> raw, item |-> c.item]]
               /\ UNCHANGED last
    /\ UNCHANGED <<variant, table, nextUuid, deleted>>

\* An updateProduct whose put is conditional on the Item still being there.
updateProduct_put_conditional(p) ==
    /\ pending[p].op = "update"
    /\ IF get(table, pending[p].id) = NoItem
       THEN /\ UNCHANGED table
            /\ Respond("update", pending[p].id, pending[p].raw,
                       handleError(HttpError(404, NotFoundMessage)))
       ELSE /\ table' = put(table, pending[p].item)
            /\ Respond("update", pending[p].id, pending[p].raw,
                       ProductResponse(TRUE, pending[p].item))
    /\ pending' = [pending EXCEPT ![p] = Idle]
    /\ UNCHANGED <<variant, nextUuid, deleted>>

\* updateProduct, lines 132-143: the put and the 200
updateProduct_put(p) ==
    /\ pending[p].op = "update"
    /\ table' = put(table, pending[p].item)
    /\ Respond("update", pending[p].id, pending[p].raw,
               ProductResponse(TRUE, pending[p].item))
    /\ pending' = [pending EXCEPT ![p] = Idle]
    /\ UNCHANGED <<variant, nextUuid, deleted>>

\* deleteProduct, lines 151-153: from the request to the await of the delete
deleteProduct_fetch(p, id) ==
    /\ variant = "part_000"
    /\ pending[p] = Idle
    /\ LET f == fetchProductById(table, id)
       IN IF f.error # NoError
          THEN /\ Respond("delete", id, NoBody, handleError(f.error))
               /\ UNCHANGED pending
          ELSE /\ pending' = [pending EXCEPT ![p] =
                                 [op |-> "delete", id |-> id, raw |-> NoBody, item |-> NoItem]]
               /\ UNCHANGED last
    /\ UNCHANGED <<variant, table, nextUuid, deleted>>

\* deleteProduct, lines 155-167: the delete and the 204
deleteProduct_delete(p) ==
    /\ pending[p].op = "delete"
    /\ table' = delete(table, pending[p].id)
    /\ deleted' = deleted \cup {pending[p].id}
    /\ Respond("delete", pending[p].id, NoBody, DeletedResponse)
    /\ pending' = [pending EXCEPT ![p] = Idle]
    /\ UNCHANGED <<variant, nextUuid>>

\* the bodies sent in the interleaved runs: two different valid ones
RaceBodies == {Raw(TRUE, BodyPlain), Raw(TRUE, BodyExtra(ClientId))}

InitConc == Init /\ variant = "part_000"

NextConc ==
    \/ \E raw \in RaceBodies : nextUuid <= MaxRaceUuid /\ createProduct(raw)
    \/ \E p \in Procs, id \in KnownIds, raw \in RaceBodies : updateProduct_fetch(p, id, raw)
    \/ \E p \in Procs : updateProduct_put(p)
    \/ \E p \in Procs, id \in KnownIds : deleteProduct_fetch(p, id)
    \/ \E p \in Procs : deleteProduct_delete(p)

SpecConc == InitConc /\ [][NextConc]_vars

(***************************************************************************)
(* Properties.                                                             *)
(***************************************************************************)
\* the keys of the Items in tbl
Stored(tbl) == {i \in Ids : tbl[i] # NoItem}

\* the fields of a body other than its productId
DataFields == {"name", "description", "price", "available", "extra"}

\* the schema's fields that o lacks or holds with another type than the schema's
WrongFields(o) ==
    {f \in {"name", "description", "price", "available"} :
        o[f] = ABSENT \/ TypeOf(o[f]) # schemaType(f)}

\* what a Get of id answers on tbl in the deployed revision
GetOf(tbl, id) ==
    IF variant = "handlers" THEN getResponse_h(tbl, id) ELSE getResponse(tbl, id)

\* C1: every Create that answers 200 mints exactly one id, and the Item it
\* stored is the record of its response, productId included, so that a Get
\* of the returned productId answers 200 with that same record.
C1_CreateRoundTrip ==
    [][(last'.op = "create" /\ last'.resp.statusCode = 200 /\ nextUuid' # nextUuid)
        => LET created == last'.resp.item
           IN /\ nextUuid' = nextUuid + 1
              /\ table'[created.productId] = created
              /\ GetOf(table', created.productId).statusCode = 200
              /\ GetOf(table', created.productId).item = created]_vars

\* C2: a Create that answers 200 returns a productId that is present,
\* differs from the productId of the request body, and was not the key of
\* a stored Item; every Item stored before is unchanged and the table has
\* exactly one Item more.
C2_CreateMintsFreshId ==
    [][(last'.op = "create" /\ last'.resp.statusCode = 200 /\ nextUuid' # nextUuid)
        => LET pid == last'.resp.item.productId
           IN /\ pid # NoId
              /\ pid # last'.raw.obj.productId
              /\ pid \notin Stored(table)
              /\ \A i \in Stored(table) : table'[i] = table[i]
              /\ Cardinality(Stored(table')) = Cardinality(Stored(table)) + 1]_vars

\* C2's case: a Create has answered 200 to a body that carried the
\* productId of a stored Item, and that Item is still there.
C2_Witness ==
    /\ last.op = "create"
    /\ last.resp.statusCode = 200
    /\ last.raw.obj.productId \in Uuids
    /\ table[last.raw.obj.productId] # NoItem
    /\ table[last.raw.obj.productId].productId = last.raw.obj.productId

\* C3: a Create whose parsed body lacks one of the four fields, or holds it
\* with the wrong type, answers 400 with errors naming exactly those fields.
C3_InvalidCreateNamesEveryField ==
    (last.op = "create" /\ last.raw.wellFormed /\ WrongFields(last.raw.obj) # {})
    => /\ last.resp.statusCode = 400
       /\ last.resp.kind = "errors"
       /\ {last.resp.errors[i].path : i \in 1..Len(last.resp.errors)}
            = WrongFields(last.raw.obj)

\* C4: an Update of a stored id with a valid body answers 200 with the new
\* record; the Item under that id becomes exactly the body's fields with the
\* path id as productId (nothing of the old Item is kept, a productId of the
\* body is ignored), a Get of the id answers that record, and every other
\* Item is unchanged.
C4_UpdateReplaces ==
    [][(/\ last'.op = "update"
        /\ table[last'.id] # NoItem
        /\ last'.raw.wellFormed
        /\ validate(last'.raw.obj) = <<>>)
        => LET id == last'.id
               body == last'.raw.obj
           IN /\ last'.resp.statusCode = 200
              /\ last'.resp.kind = "product"
              /\ last'.resp.item = table'[id]
              /\ table'[id].productId = id
              /\ \A f \in DataFields : table'[id][f] = body[f]
              /\ GetOf(table', id).statusCode = 200
              /\ GetOf(table', id).item = table'[id]
              /\ \A i \in Ids \ {id} : table'[i] = table[i]]_vars

\* C4's case: an Update has answered 200 to a body that carried the
\* productId of another stored Item.
C4_Witness ==
    /\ last.op = "update"
    /\ last.resp.statusCode = 200
    /\ last.raw.obj.productId \in Uuids \ {last.id}
    /\ table[last.raw.obj.productId] # NoItem
    /\ table[last.id] # NoItem

\* C5: without interleaving, an Update (whatever its body) or a Delete of
\* an id that is not stored answers 404 {"error":"Product not found"} and
\* leaves the table as it was.
C5_AbsentIdIs404 ==
    [][(last'.op \in {"update", "delete"} /\ table[last'.id] = NoItem)
        => /\ last'.resp.statusCode = 404
           /\ last'.resp.kind = "error"
           /\ last'.resp.error = "Product not found"
           /\ table' = table]_vars

\* C5's case: an Update with a body that is not JSON, of an id that is not
\* stored, has answered 404 while other Items are stored.
C5_Witness ==
    /\ last.op = "update"
    /\ ~last.raw.wellFormed
    /\ last.resp.statusCode = 404
    /\ table[last.id] = NoItem
    /\ Stored(table) # {}

\* C6: a Delete of a stored id answers 204 with an empty body and removes
\* that Item only; a Get of the id then answers 404.
C6_DeleteRemoves ==
    [][(last'.op = "delete" /\ table[last'.id] # NoItem)
        => /\ last'.resp.statusCode = 204
           /\ last'.resp.kind = "empty"
           /\ table'[last'.id] = NoItem
           /\ \A i \in Ids \ {last'.id} : table'[i] = table[i]
           /\ GetOf(table', last'.id).statusCode = 404]_vars

\* C6's case: a Delete has answered 204 and another Item is still stored.
C6_Witness ==
    /\ last.op = "delete"
    /\ last.resp.statusCode = 204
    /\ table[last.id] = NoItem
    /\ Stored(table) # {}

\* C7: List answers 200 with exactly the Items stored, each as it is
\* stored (none for an empty table), and leaves the table as it was.
C7_ListReturnsStore ==
    [][(last'.op = "list")
        => /\ last'.resp.statusCode = 200
           /\ last'.resp.kind = "list"
           /\ \A i \in Ids : table[i] # NoItem => table[i] \in last'.resp.items
           /\ \A x \in last'.resp.items : x # NoItem /\ table[x.productId] = x
           /\ table' = table]_vars

\* C7's case: a List has answered two Items after a Delete of a third.
C7_Witness ==
    /\ last.op = "list"
    /\ Cardinality(last.resp.items) >= 2
    /\ \E i \in deleted : table[i] = NoItem

\* C8: a Create, or an Update of a stored id, whose body is not JSON
\* answers 400 with one error message that carries the parse diagnostic,
\* and writes nothing.
C8_MalformedIs400 ==
    [][(/\ last'.op \in {"create", "update"}
        /\ ~last'.raw.wellFormed
        /\ (last'.op = "update" => table[last'.id] # NoItem))
        => /\ last'.resp.statusCode = 400
           /\ last'.resp.kind = "error"
           /\ last'.resp.error = "Invalid request body format: Unexpected token"
           /\ table' = table]_vars

\* C9: an Update that has passed its existence check puts its record and
\* answers 200 whatever has happened to the id since: the Item under the id
\* becomes its record (the last put wins), also when a Delete has removed
\* the Item in between.
C9_UpdatePutUnchecked ==
    [][\A p \in Procs :
        (pending[p].op = "update" /\ pending'[p] = Idle)
        => /\ table' = [table EXCEPT ![pending[p].id] = pending[p].item]
           /\ last'.op = "update"
           /\ last'.id = pending[p].id
           /\ last'.resp.statusCode = 200
           /\ last'.resp.item = pending[p].item]_vars

\* C9's case: an id whose Delete has answered 204 is stored again, put
\* back by an Update that answered 200.
C9_Witness ==
    \E id \in deleted :
        /\ table[id] # NoItem
        /\ last.op = "update"
        /\ last.id = id
        /\ last.resp.statusCode = 200

\* C10: every stored Item is keyed by its own productId and holds the four
\* fields with the schema's types.
C10_StoredItemsValid ==
    \A i \in Ids :
        table[i] # NoItem
        => /\ table[i].productId = i
           /\ WrongFields(table[i]) = {}

====
